---- MODULE Spec2Model ----
(***************************************************************************)
(* The backtesting-and-risk engine of backtesting_demo.py: Portfolio,      *)
(* SimpleMovingAverageStrategy, VaRService and BacktestEngine.run_backtest.*)
(*                                                                         *)
(* Numbers.  Money (cash, prices, portfolio values) is counted in          *)
(* thousandths of a currency unit, so that the 0.1% slippage of a close    *)
(* that is a whole number of units is an exact integer.  Ratios (returns,  *)
(* averages, VaR figures) are exact fractions [n, d] in lowest terms with  *)
(* d > 0.  Quantities the code derives through sums of many fractions or a *)
(* square root (Sharpe ratio, parametric VaR, VaR averages) are kept as    *)
(* the terms they are computed from, behind the guards the code puts in    *)
(* front of them.                                                          *)
(***************************************************************************)
EXTENDS Integers, Sequences, FiniteSets, TLC

\* ---------------------------------------------------------------- bounds
\* Largest day count D passed to run_backtest.
MaxDays == 5
\* Largest long_period of a strategy.
MaxLong == 3
\* Largest VaR window passed to run_backtest.
MaxWindow == 3
\* Direct calls on a Portfolio or a strategy (SpecPortfolio, SpecStrategy).
MaxCalls == 3
\* Largest order quantity of a direct Portfolio call.
MaxQty == 2
\* Magnitude of the initial cash tried, in currency units.
CashUnits == 20
\* Shares per trade of the strategies tried.
PositionSize == 1
\* Longest return list passed to a direct VaRService call.
MaxReturns == 5
\* Longest portfolio_values list whose drawdown is computed directly.
MaxValues == 4
\* Largest magnitude of an integer window argument of compute_features.
MaxWindowArg == 3

\* The short_period values tried.
ShortPeriods == {1, 2}

\* ------------------------------------------------------ program constants
\* slippage = 0.001, as the fraction SlipRate / SlipScale.
SlipRate == 1
SlipScale == 1000
\* confidence_level = 0.95, in percent.
ConfidencePct == 95
\* var_reports[-5:]
ReportTail == 5
\* One currency unit in thousandths: the slippage of a whole close is exact.
Unit == SlipScale

\* ------------------------------------------------------------- fractions
Abs(x) == IF x < 0 THEN -x ELSE x

RECURSIVE GCD(_, _)
GCD(a, b) == IF b = 0 THEN a ELSE GCD(b, a % b)

\* n/d for d # 0, in lowest terms with a positive denominator.
Frac(n, d) ==
    LET g == GCD(Abs(n), Abs(d))
        s == IF d < 0 THEN -1 ELSE 1
    IN  [n |-> (s * n) \div g, d |-> (s * d) \div g]

Zero == [n |-> 0, d |-> 1]
FromInt(i) == [n |-> i, d |-> 1]
FracLT(a, b) == a.n * b.d < b.n * a.d
FracLE(a, b) == a.n * b.d <= b.n * a.d
FracAdd(a, b) == Frac(a.n * b.d + b.n * a.d, a.d * b.d)
FracMul(a, b) == Frac(a.n * b.n, a.d * b.d)
FracDiv(a, b) == Frac(a.n * b.d, a.d * b.n)
FracNeg(a) == [n |-> -a.n, d |-> a.d]

RECURSIVE SumSeq(_)
SumSeq(s) == IF s = <<>> THEN 0 ELSE Head(s) + SumSeq(Tail(s))

\* Python's s[-k:].  For k >= 1 the last k elements, the whole list when
\* k > len(s); s[-0:] is s[0:], the whole list; for k < 0 it is s[|k|:], the list
\* without its first |k| elements.
LastK(s, k) ==
    IF k <= 0 THEN SubSeq(s, 1 - k, Len(s))
    ELSE IF k >= Len(s) THEN s
    ELSE SubSeq(s, Len(s) - k + 1, Len(s))

\* ------------------------------------------------------------- Portfolio
Symbols == {"ASSET_A", "ASSET_B"}
EmptyMap == [s \in {} |-> 0]

\* Portfolio.__init__
Portfolio(initial) == [cash |-> initial, positions |-> EmptyMap, average_costs |-> EmptyMap]

\* dict[k] = v
Put(m, k, v) == [x \in DOMAIN m \cup {k} |-> IF x = k THEN v ELSE m[x]]
\* del dict[k]
Del(m, k) == [x \in DOMAIN m \ {k} |-> m[x]]

\* Lines 57-59: the average cost of a position that a buy adds to.
WeightedMutAverage(current_qty, current_avg, total_cost, new_qty) ==
    FracDiv(FracAdd(current_avg, FromInt(total_cost)), FromInt(new_qty))
WeightedAverage(current_qty, current_avg, total_cost, new_qty) ==
    LET total_value == FracAdd(FracMul(FromInt(current_qty), current_avg),
                               FromInt(total_cost))
    IN  FracDiv(total_value, FromInt(new_qty))

\* Portfolio.execute_buy_order; price is an integer amount of thousandths.
execute_buy_order(p, symbol, quantity, price) ==
    LET total_cost == quantity * price
        cash == p.cash - total_cost
    IN  IF symbol \in DOMAIN p.positions
        THEN LET current_qty == p.positions[symbol]
                 current_avg == p.average_costs[symbol]
                 new_qty == current_qty + quantity
             IN  [cash |-> cash,
                  positions |-> Put(p.positions, symbol, new_qty),
                  average_costs |-> Put(p.average_costs, symbol,
                                        WeightedAverage(current_qty, current_avg,
                                                        total_cost, new_qty))]
        ELSE [cash |-> cash,
              positions |-> Put(p.positions, symbol, quantity),
              average_costs |-> Put(p.average_costs, symbol, FromInt(price))]

\* The test of line 72 that closes a position.
SellMutClosed(remaining) == remaining < 0
SellClosed(remaining) == remaining <= 0

\* total_value of line 67: what a sell adds to cash.
SellMutProceeds(p, symbol, quantity, price) ==
    IF symbol \in DOMAIN p.positions
    THEN (IF quantity < p.positions[symbol] THEN quantity ELSE p.positions[symbol]) * price
    ELSE 0
SellProceeds(p, symbol, quantity, price) == quantity * price

\* Portfolio.execute_sell_order
execute_sell_mut_order(p, symbol, quantity, price) ==
    LET total_value == SellProceeds(p, symbol, quantity, price)
        cash == p.cash + total_value
    IN  IF symbol \in DOMAIN p.positions
        THEN LET remaining == p.positions[symbol] - quantity
             IN  IF SellClosed(remaining)
                 THEN [cash |-> cash,
                       positions |-> Del(p.positions, symbol),
                       average_costs |-> Del(p.average_costs, symbol)]
                 ELSE [cash |-> cash,
                       positions |-> Put(p.positions, symbol, remaining),
                       average_costs |-> Put(p.average_costs, symbol, FromInt(price))]
        ELSE [p EXCEPT !.cash = cash]
execute_sell_order(p, symbol, quantity, price) ==
    LET total_value == SellProceeds(p, symbol, quantity, price)
        cash == p.cash + total_value
    IN  IF symbol \in DOMAIN p.positions
        THEN LET remaining == p.positions[symbol] - quantity
             IN  IF SellClosed(remaining)
                 THEN [cash |-> cash,
                       positions |-> Del(p.positions, symbol),
                       average_costs |-> Del(p.average_costs, symbol)]
                 ELSE [cash |-> cash,
                       positions |-> Put(p.positions, symbol, remaining),
                       average_costs |-> p.average_costs]
        ELSE [p EXCEPT !.cash = cash]

\* Portfolio.get_portfolio_value; current_prices maps symbols to prices.
RECURSIVE HeldValue(_, _, _)
HeldValue(positions, current_prices, todo) ==
    IF todo = {} THEN 0
    ELSE LET s == CHOOSE x \in todo : TRUE
         IN  (IF s \in DOMAIN current_prices THEN positions[s] * current_prices[s] ELSE 0)
             + HeldValue(positions, current_prices, todo \ {s})

get_portfolio_mut_value(p, current_prices) ==
    p.cash + HeldValue(p.positions,
                       [s \in DOMAIN p.positions |->
                           IF s \in DOMAIN current_prices THEN current_prices[s]
                           ELSE p.average_costs[s].n \div p.average_costs[s].d],
                       DOMAIN p.positions)
get_portfolio_all_value(p, current_prices) ==
    p.cash + HeldValue([s \in DOMAIN current_prices |->
                           IF s \in DOMAIN p.positions THEN p.positions[s] ELSE 1],
                       current_prices, DOMAIN current_prices)
get_portfolio_value(p, current_prices) ==
    p.cash + HeldValue(p.positions, current_prices, DOMAIN p.positions)

\* ------------------------------------------- SimpleMovingAverageStrategy
\* SimpleMovingAverageStrategy.__init__
NewStrategy(short_period, long_period, position_size) ==
    [short_period |-> short_period, long_period |-> long_period,
     position_size |-> position_size, is_long |-> FALSE]

\* SimpleMovingAverageStrategy.calculate_ma, period >= 1
calculate_ma(prices, period) ==
    IF Len(prices) < period THEN Zero
    ELSE Frac(SumSeq(LastK(prices, period)), period)

\* The warm-up test of line 184.
WarmUp(n, long_period) == n < long_period + 1

\* bullish_crossover, line 201
BullishMutCrossover(prev_short_ma, prev_long_ma, short_ma, long_ma) ==
    FracLT(long_ma, short_ma)
BullishCrossover(prev_short_ma, prev_long_ma, short_ma, long_ma) ==
    FracLE(prev_short_ma, prev_long_ma) /\ FracLT(long_ma, short_ma)

\* bearish_crossover, line 202
BearishMutCrossover(prev_short_ma, prev_long_ma, short_ma, long_ma) ==
    FracLT(prev_long_ma, prev_short_ma) /\ FracLT(short_ma, long_ma)
BearishCrossover(prev_short_ma, prev_long_ma, short_ma, long_ma) ==
    FracLE(prev_long_ma, prev_short_ma) /\ FracLT(short_ma, long_ma)

\* The position test of line 204 that lets a BUY through.
BuyMutAllowed(is_long) == TRUE
BuyAllowed(is_long) == ~is_long

\* The position test of line 207 that lets a SELL through.
SellMutAllowed(is_long) == TRUE
SellAllowed(is_long) == is_long

\* Lines 188-198: the four moving averages of a call past the warm-up test.
MovingAverages(st, ohlc_data) ==
    LET prices == [i \in 1..Len(ohlc_data) |-> ohlc_data[i].close]
        prev_prices == SubSeq(prices, 1, Len(prices) - 1)
    IN  [short_ma |-> calculate_ma(prices, st.short_period),
         long_ma |-> calculate_ma(prices, st.long_period),
         prev_short_ma |-> calculate_ma(prev_prices, st.short_period),
         prev_long_ma |-> calculate_ma(prev_prices, st.long_period)]

\* SimpleMovingAverageStrategy.generate_signals: the signals returned and the
\* is_long the call leaves behind.  A signal is <<action, symbol, quantity, price>>.
generate_signals(st, ohlc_data) ==
    IF WarmUp(Len(ohlc_data), st.long_period)
    THEN [signals |-> <<>>, is_long |-> st.is_long]
    ELSE LET ma == MovingAverages(st, ohlc_data)
             short_ma == ma.short_ma
             long_ma == ma.long_ma
             prev_short_ma == ma.prev_short_ma
             prev_long_ma == ma.prev_long_ma
             current_ohlc == ohlc_data[Len(ohlc_data)]
             bullish_crossover ==
                 BullishCrossover(prev_short_ma, prev_long_ma, short_ma, long_ma)
             bearish_crossover ==
                 BearishCrossover(prev_short_ma, prev_long_ma, short_ma, long_ma)
         IN  IF bullish_crossover /\ BuyAllowed(st.is_long)
             THEN [signals |-> << <<"BUY", current_ohlc.symbol, st.position_size,
                                    current_ohlc.close>> >>,
                   is_long |-> TRUE]
             ELSE IF bearish_crossover /\ SellAllowed(st.is_long)
             THEN [signals |-> << <<"SELL", current_ohlc.symbol, st.position_size,
                                    current_ohlc.close>> >>,
                   is_long |-> FALSE]
             ELSE [signals |-> <<>>, is_long |-> st.is_long]

\* ------------------------------------------------------------ VaRService
\* sorted(returns): ascending, by insertion.
RECURSIVE Insert(_, _)
Insert(x, s) ==
    IF s = <<>> THEN <<x>>
    ELSE IF FracLE(x, Head(s)) THEN <<x>> \o s
    ELSE <<Head(s)>> \o Insert(x, Tail(s))

RECURSIVE Sorted(_)
Sorted(s) == IF s = <<>> THEN <<>> ELSE Insert(Head(s), Sorted(Tail(s)))

\* int(x) of a fraction: truncation toward zero.
Trunc(x) == IF x.n < 0 THEN -((-x.n) \div x.d) ELSE x.n \div x.d

Min(a, b) == IF a < b THEN a ELSE b
Max(a, b) == IF a > b THEN a ELSE b

\* The guard of lines 138 and 152.
VaRMutGuard(returns, portfolio_value) == returns = <<>>
VaRGuard(returns, portfolio_value) == returns = <<>> \/ portfolio_value <= 0

\* 1 - confidence_level is a binary float.  For the levels below it is not the
\* exact difference: -1 where the float lies under it (1 - 0.8 is
\* 0.19999999999999996, 1 - 0.9 is 0.09999999999999998), 1 where it lies over it
\* (1 - 0.95 is 0.050000000000000044), 0 where the float is exact.
ComplementSide(confidence_level) ==
    IF confidence_level \in {Frac(4, 5), Frac(9, 10)} THEN -1
    ELSE IF confidence_level \in {Frac(19, 20), Frac(39, 40), Frac(99, 100)} THEN 1
    ELSE 0

\* int((1 - confidence_level) * n) of line 142.  A float just under a whole
\* number k >= 1 truncates to k - 1; everywhere else the float and the exact
\* product truncate alike.
QuantileMutIndex(confidence_level, n) ==
    Trunc(FracMul(confidence_level, FromInt(n)))
QuantileIndex(confidence_level, n) ==
    LET exact == FracMul(FracAdd(FromInt(1), FracNeg(confidence_level)), FromInt(n))
    IN  IF ComplementSide(confidence_level) < 0 /\ exact.d = 1 /\ exact.n >= 1
        THEN exact.n - 1
        ELSE Trunc(exact)

\* VaRService.historical_var; confidence_level is a fraction, the result a fraction
\* of thousandths.  Python index idx is element idx + 1 here.
historical_var(returns, confidence_level, portfolio_value) ==
    IF VaRGuard(returns, portfolio_value) THEN Zero
    ELSE LET sorted_returns == Sorted(returns)
             raw == QuantileIndex(confidence_level, Len(sorted_returns))
             idx == Max(0, Min(Len(sorted_returns) - 1, raw))
             percentile_return == sorted_returns[idx + 1]
         IN  FracMul(FracNeg(percentile_return), FromInt(portfolio_value))

\* z_scores.get(confidence_level, 1.65), in hundredths.
ZScore(confidence_level) ==
    IF confidence_level = Frac(90, 100) THEN Frac(128, 100)
    ELSE IF confidence_level = Frac(99, 100) THEN Frac(233, 100)
    ELSE Frac(165, 100)

\* sum(...) of fractions
RECURSIVE SumFrac(_)
SumFrac(s) == IF s = <<>> THEN Zero ELSE FracAdd(Head(s), SumFrac(Tail(s)))

\* Lines 155-156: variance of a non-empty list; std_dev is its square root.
MutVariance(returns) ==
    LET mean_return == FracDiv(SumFrac(returns), FromInt(Len(returns)))
        squares == [i \in DOMAIN returns |->
                       LET dev == FracAdd(returns[i], FracNeg(mean_return))
                       IN  FracMul(dev, dev)]
    IN  IF Len(returns) > 1
        THEN FracDiv(SumFrac(squares), FromInt(Len(returns) - 1))
        ELSE Zero
Variance(returns) ==
    LET mean_return == FracDiv(SumFrac(returns), FromInt(Len(returns)))
        squares == [i \in DOMAIN returns |->
                       LET dev == FracAdd(returns[i], FracNeg(mean_return))
                       IN  FracMul(dev, dev)]
    IN  FracDiv(SumFrac(squares), FromInt(Len(returns)))

\* VaRService.parametric_var.  Past the guard the result is z * std_dev *
\* portfolio_value, kept as those three terms (std_dev as the window it is the
\* population deviation of: the square root of Variance(std_dev_of)).
parametric_var(returns, confidence_level, portfolio_value) ==
    IF VaRGuard(returns, portfolio_value) THEN Zero
    ELSE [z |-> ZScore(confidence_level), std_dev_of |-> returns,
          portfolio_value |-> portfolio_value]

\* -------------------------------------------------------- BacktestEngine
\* assets, as main passes them; assets[0] is Assets[1].
Assets == <<"ASSET_A", "ASSET_B">>

\* Daily moves of a generated close, in currency units (the sign and size of
\* open_price * daily_return).
Moves == {-1, 0, 1}
\* Drifts of the second asset's closes.
BDrifts == {1}
\* start_price of the generated series, in currency units: high enough for every
\* close to stay positive.
StartClose == MaxDays + 2

\* MarketDataLoader.generate_sample_data: the bars (symbol and close) of `n` days
\* whose closes move by moves[1], moves[2], ... from start_price.
RECURSIVE ClosePath(_, _, _)
ClosePath(current_price, moves, i) ==
    IF i > Len(moves) THEN <<>>
    ELSE LET close_price == current_price + moves[i] * Unit
         IN  <<close_price>> \o ClosePath(close_price, moves, i + 1)

generate_sample_data(symbol, moves, start_price) ==
    LET closes == ClosePath(start_price * Unit, moves, 1)
    IN  [i \in 1..Len(moves) |-> [symbol |-> symbol, close |-> closes[i]]]

\* MarketDataLoader.calculate_daily_returns
calculate_daily_mut_returns(ohlc_data) ==
    <<Zero>> \o [i \in 1..(Len(ohlc_data) - 1) |->
                    Frac(ohlc_data[i + 1].close, ohlc_data[i].close)]
calculate_daily_returns(ohlc_data) ==
    <<Zero>> \o [i \in 1..(Len(ohlc_data) - 1) |->
                    LET prev_close == ohlc_data[i].close
                        curr_close == ohlc_data[i + 1].close
                    IN  Frac(curr_close - prev_close, prev_close)]

VARIABLES
    days,               \* run_backtest argument
    initial_cash,       \* run_backtest argument
    var_window,         \* run_backtest argument
    confidence_level,   \* run_backtest argument
    asset_data,         \* symbol -> bars
    asset_returns,      \* symbol -> daily returns of its bars (line 250)
    strategy,           \* the SimpleMovingAverageStrategy object
    portfolio,          \* the Portfolio object
    portfolio_values,
    portfolio_returns,
    var_reports,
    rolling_returns,    \* the window of line 307, once a VaR record was computed
    day,                \* the loop variable: the next day to replay
    pc,                 \* "loop", "done" (returned), "raised"; "idle" outside a run
    historical_data,    \* the argument of the latest generate_signals call
    signals,            \* the result of the latest generate_signals call
    fills,              \* the fills logged by the run, in order
    report,             \* the returned dict, or the exception raised
    run,                \* 1 for the first call of run_backtest, 2 for the second
    first_report,       \* the first call's result
    start_is_long,      \* strategy.is_long when the current run started
    call,               \* the latest direct call: its arguments, locals and result
    emitted,            \* the actions a strategy emitted over its direct calls
    ncalls,             \* direct calls made so far
    bought              \* symbol -> cost and quantity of the buys made on it since
                        \* it was last not held, while no sell has touched it

vars == <<days, initial_cash, var_window, confidence_level, asset_data, strategy,
          portfolio, portfolio_values, portfolio_returns, var_reports,
          rolling_returns, day, pc,
          historical_data, signals, fills, report, run, first_report,
          start_is_long, call, emitted, ncalls, bought, asset_returns>>

NoReport == [status |-> "NONE"]
NoCall == [op |-> "NONE"]

\* asset_data[primary_asset][:day+1]
HistoryMutPrefix(data, d) == data
HistoryPrefix(data, d) == SubSeq(data, 1, d + 1)

\* Lines 286-294: the fill price of a BUY and of a SELL.
BuyMutFill(price) == (price * (SlipScale - SlipRate)) \div SlipScale
BuyFill(price) == (price * (SlipScale + SlipRate)) \div SlipScale
SellFill(price) == (price * (SlipScale - SlipRate)) \div SlipScale

RECURSIVE ExecuteMutOrders(_, _, _, _)
ExecuteMutOrders(p, log, sigs, d) ==
    IF sigs = <<>> THEN [portfolio |-> p, fills |-> log]
    ELSE LET sig == Head(sigs)
             fill == IF sig[1] = "BUY" THEN BuyFill(sig[4]) ELSE SellFill(sig[4])
             q == IF sig[1] = "BUY"
                  THEN execute_buy_order(p, sig[2], sig[3], fill)
                  ELSE execute_sell_order(p, sig[2], sig[3], fill)
         IN  ExecuteMutOrders(q, Append(log, [day |-> d, action |-> sig[1],
                                              symbol |-> sig[2], quantity |-> sig[3],
                                              fill_price |-> fill]),
                              Tail(sigs), d)

ExecuteMutSignals(p, log, sigs, d) ==
    IF sigs = <<>>
    THEN [portfolio |-> [p EXCEPT !.average_costs = [s \in DOMAIN p.positions |-> Zero]],
          fills |-> log]
    ELSE ExecuteMutOrders(p, log, sigs, d)

\* Lines 284-294: execute the signals in order; the portfolio and the fills logged.
RECURSIVE ExecuteSignals(_, _, _, _)
ExecuteSignals(p, log, sigs, d) ==
    IF sigs = <<>> THEN [portfolio |-> p, fills |-> log]
    ELSE LET sig == Head(sigs)
             action == sig[1]
             symbol == sig[2]
             quantity == sig[3]
             price == sig[4]
         IN  IF action = "BUY"
             THEN ExecuteSignals(
                      execute_buy_order(p, symbol, quantity, BuyFill(price)),
                      Append(log, [day |-> d, action |-> action, symbol |-> symbol,
                                   quantity |-> quantity, fill_price |-> BuyFill(price)]),
                      Tail(sigs), d)
             ELSE IF action = "SELL"
             THEN ExecuteSignals(
                      execute_sell_order(p, symbol, quantity, SellFill(price)),
                      Append(log, [day |-> d, action |-> action, symbol |-> symbol,
                                   quantity |-> quantity, fill_price |-> SellFill(price)]),
                      Tail(sigs), d)
             ELSE ExecuteSignals(p, log, Tail(sigs), d)

\* Lines 272-275: the closes of day d of the assets that have a bar of day d.
CurrentPrices(data, d) ==
    [a \in {x \in {Assets[i] : i \in DOMAIN Assets} : d < Len(data[x])}
        |-> data[a][d + 1].close]

\* Line 302
PortfolioMutReturn(current_portfolio_value, prev_value) ==
    IF current_portfolio_value > 0
    THEN Frac(current_portfolio_value - prev_value, current_portfolio_value)
    ELSE Zero
PortfolioReturn(current_portfolio_value, prev_value) ==
    IF prev_value > 0
    THEN Frac(current_portfolio_value - prev_value, prev_value)
    ELSE Zero

\* The test of line 306.
WindowMutFull(n, window) == n > window
WindowFull(n, window) == n >= window

\* Lines 309-321: the VaR record of day d.
VarReport(rolling, c, current_portfolio_value, d, window) ==
    LET hvar == historical_var(rolling, c, current_portfolio_value)
        pvar == parametric_var(rolling, c, current_portfolio_value)
    IN  [date |-> d,
         portfolio_value |-> current_portfolio_value,
         historical_var |-> hvar,
         parametric_var |-> pvar,
         historical_var_pct |->
             IF current_portfolio_value > 0
             THEN FracMul(FracDiv(hvar, FromInt(current_portfolio_value)), FromInt(100))
             ELSE Zero,
         parametric_var_pct |->
             IF current_portfolio_value > 0
             THEN [pct_of |-> pvar, portfolio_value |-> current_portfolio_value]
             ELSE Zero,
         confidence_level |-> c,
         window_size |-> window]

\* Line 338: the drawdown of a value from the running peak.
MutDrawdown(max_value, value) ==
    IF max_value > 0 /\ value > 0 THEN Frac(max_value - value, value) ELSE Zero
Drawdown(max_value, value) ==
    IF max_value > 0 THEN Frac(max_value - value, max_value) ELSE Zero

\* Lines 333-341: the running peak and the largest drawdown from it.
RECURSIVE MaxDrawdown(_, _, _)
MaxDrawdown(values, max_value, max_drawdown) ==
    IF values = <<>> THEN max_drawdown
    ELSE LET value == Head(values)
             peak == IF value > max_value THEN value ELSE max_value
             drawdown == Drawdown(peak, value)
         IN  MaxDrawdown(Tail(values), peak,
                         IF FracLT(max_drawdown, drawdown) THEN drawdown ELSE max_drawdown)

\* Lines 344-347.  The volatility of line 346 is positive iff the returns after
\* the first are at least two and not all equal; the ratio is then kept as the
\* returns it is computed from.
SharpeRatio(returns) ==
    LET rest == Tail(returns)
    IN  IF Len(returns) > 2 /\ \E i \in DOMAIN rest : rest[i] # rest[1]
        THEN [sharpe_of |-> rest]
        ELSE Zero

\* Lines 350-351: the mean of one field of the records, kept as its terms.
Average(values) ==
    IF values = <<>> THEN Zero ELSE [mean_of |-> values]

\* Line 331: total_return; the division raises when initial_cash is 0.
TotalReturnRaises(initial) == initial = 0

\* Lines 330-372: the returned dict.
BacktestReport(initial, n, values, returns, reports, p) ==
    LET final_value == values[Len(values)]
    IN  [status |-> "SUCCESS",
         initial_value |-> initial,
         final_value |-> final_value,
         total_return_pct |-> FracMul(Frac(final_value - initial, initial), FromInt(100)),
         max_drawdown_pct |-> FracMul(MaxDrawdown(values, 0, Zero), FromInt(100)),
         sharpe_ratio |-> SharpeRatio(returns),
         trading_days |-> n,
         portfolio_values |-> values,
         portfolio_returns |-> returns,
         var_reports_count |-> Len(reports),
         avg_historical_var |->
             Average([i \in DOMAIN reports |-> reports[i].historical_var]),
         avg_parametric_var |->
             Average([i \in DOMAIN reports |-> reports[i].parametric_var]),
         daily_var_reports |-> LastK(reports, ReportTail),
         final_portfolio |-> p]

\* ------------------------------------------------------------ run_backtest
\* Lines 261-265: the state a call of run_backtest starts its loop from.
StartMutRun ==
    /\ portfolio' = portfolio
    /\ portfolio_values' = <<initial_cash>>
    /\ portfolio_returns' = <<Zero>>
    /\ var_reports' = <<>>
    /\ rolling_returns' = <<>>
    /\ day' = 1
    /\ pc' = "loop"
    /\ historical_data' = <<>>
    /\ signals' = <<>>
    /\ fills' = <<>>
    /\ report' = NoReport
StartRun ==
    /\ portfolio' = Portfolio(initial_cash)
    /\ portfolio_values' = <<initial_cash>>
    /\ portfolio_returns' = <<Zero>>
    /\ var_reports' = <<>>
    /\ rolling_returns' = <<>>
    /\ day' = 1
    /\ pc' = "loop"
    /\ historical_data' = <<>>
    /\ signals' = <<>>
    /\ fills' = <<>>
    /\ report' = NoReport

\* The arguments of a call of run_backtest, var_window among `windows`, and the
\* state lines 242-265 leave.
InitRun(windows) ==
    /\ days \in 0..MaxDays
    /\ initial_cash \in {-CashUnits * Unit, 0, CashUnits * Unit}
    /\ var_window \in windows
    /\ confidence_level = Frac(ConfidencePct, 100)
    /\ \E moves \in [1..days -> Moves], drift \in BDrifts :
           asset_data =
               [a \in Symbols |->
                   IF a = Assets[1]
                   THEN generate_sample_data(a, moves, StartClose)
                   ELSE generate_sample_data(a, [i \in 1..days |-> drift], StartClose)]
    /\ asset_returns = [a \in Symbols |-> calculate_daily_returns(asset_data[a])]
    /\ \E short_period \in ShortPeriods, long_period \in 1..MaxLong :
           strategy = NewStrategy(short_period, long_period, PositionSize)
    /\ portfolio = Portfolio(initial_cash)
    /\ portfolio_values = <<initial_cash>>
    /\ portfolio_returns = <<Zero>>
    /\ var_reports = <<>>
    /\ rolling_returns = <<>>
    /\ day = 1
    /\ pc = "loop"
    /\ historical_data = <<>>
    /\ signals = <<>>
    /\ fills = <<>>
    /\ report = NoReport
    /\ run = 1
    /\ first_report = NoReport
    /\ start_is_long = FALSE
    /\ call = NoCall
    /\ emitted = <<>>
    /\ ncalls = 0
    /\ bought = EmptyMap

Init == InitRun(1..MaxWindow)

\* Line 268: for day in range(1, days) has a next iteration, for day d.
LoopMutContinues(d, n) == d <= n
LoopContinues(d, n) == d < n

\* Lines 268-322: one iteration of the loop, for day `day`.
DayStep ==
    /\ pc = "loop"
    /\ LoopContinues(day, days)
    /\ LET current_prices == CurrentPrices(asset_data, day)
           primary_asset == Assets[1]
           traded == day < Len(asset_data[primary_asset])
           history == IF traded THEN HistoryPrefix(asset_data[primary_asset], day)
                      ELSE historical_data
           out == IF traded THEN generate_signals(strategy, history)
                  ELSE [signals |-> signals, is_long |-> strategy.is_long]
           done == IF traded THEN ExecuteSignals(portfolio, fills, out.signals, day)
                   ELSE [portfolio |-> portfolio, fills |-> fills]
           current_portfolio_value == get_portfolio_value(done.portfolio, current_prices)
           prev_value == portfolio_values[Len(portfolio_values)]
           portfolio_return == PortfolioReturn(current_portfolio_value, prev_value)
           returns == Append(portfolio_returns, portfolio_return)
       IN  /\ historical_data' = history
           /\ signals' = out.signals
           /\ strategy' = [strategy EXCEPT !.is_long = out.is_long]
           /\ portfolio' = done.portfolio
           /\ fills' = done.fills
           /\ portfolio_values' = Append(portfolio_values, current_portfolio_value)
           /\ portfolio_returns' = returns
           /\ rolling_returns' =
                  IF WindowFull(Len(returns), var_window)
                  THEN LastK(returns, var_window)
                  ELSE rolling_returns
           /\ var_reports' =
                  IF WindowFull(Len(returns), var_window)
                  THEN Append(var_reports,
                              VarReport(rolling_returns', confidence_level,
                                        current_portfolio_value, day, var_window))
                  ELSE var_reports
    /\ day' = day + 1
    /\ UNCHANGED <<days, initial_cash, var_window, confidence_level, asset_data, pc,
                   report, run, first_report, start_is_long, call, emitted, ncalls,
                   bought, asset_returns>>

\* Lines 329-372: the loop is over; the report is returned, or line 331 raises.
Report ==
    /\ pc = "loop"
    /\ ~LoopContinues(day, days)
    /\ IF TotalReturnRaises(initial_cash)
       THEN /\ pc' = "raised"
            /\ report' = [status |-> "ZeroDivisionError"]
       ELSE /\ pc' = "done"
            /\ report' = BacktestReport(initial_cash, days, portfolio_values,
                                        portfolio_returns, var_reports, portfolio)
    /\ UNCHANGED <<days, initial_cash, var_window, confidence_level, asset_data,
                   strategy, portfolio, portfolio_values, portfolio_returns,
                   var_reports, rolling_returns, day, historical_data, signals,
                   fills, run,
                   first_report, start_is_long, call, emitted, ncalls, bought,
                   asset_returns>>

Next == DayStep \/ Report

Spec == Init /\ [][Next]_vars

\* Runs with positive cash whose var_window may also be 0 or negative.
InitAnyWindow == InitRun((-1)..MaxWindow) /\ initial_cash > 0

SpecAnyWindow == InitAnyWindow /\ [][Next]_vars

\* A second call of run_backtest with the same arguments and bars, and either the
\* strategy object of the first call or a newly constructed one.
RunAgain ==
    /\ pc \in {"done", "raised"}
    /\ run = 1
    /\ run' = 2
    /\ first_report' = report
    /\ \E same \in BOOLEAN :
           strategy' = IF same THEN strategy
                       ELSE NewStrategy(strategy.short_period, strategy.long_period,
                                        strategy.position_size)
    /\ start_is_long' = strategy'.is_long
    /\ StartRun
    /\ UNCHANGED <<days, initial_cash, var_window, confidence_level, asset_data,
                   call, emitted, ncalls, bought, asset_returns>>

NextTwice == DayStep \/ Report \/ RunAgain

InitTwice == Init /\ var_window = 2 /\ initial_cash >= 0

SpecTwice == InitTwice /\ [][NextTwice]_vars

\* Drifts of the second asset's closes in the second run of a pair.
OtherDrifts == {-1, 0}

\* A second call of run_backtest with the same arguments, a newly constructed
\* strategy with the same periods, the same bars of assets[0] and other bars of
\* the second asset; what the first call left is kept.
RunOther ==
    /\ pc \in {"done", "raised"}
    /\ run = 1
    /\ run' = 2
    /\ first_report' = [fills |-> fills, portfolio_values |-> portfolio_values,
                        portfolio_returns |-> portfolio_returns,
                        var_reports |-> var_reports, portfolio |-> portfolio,
                        report |-> report]
    /\ \E drift \in OtherDrifts :
           asset_data' = [asset_data EXCEPT ![Assets[2]] =
                             generate_sample_data(Assets[2], [i \in 1..days |-> drift],
                                                  StartClose)]
    /\ asset_returns' = [a \in Symbols |-> calculate_daily_returns(asset_data'[a])]
    /\ strategy' = NewStrategy(strategy.short_period, strategy.long_period,
                               strategy.position_size)
    /\ start_is_long' = FALSE
    /\ StartRun
    /\ UNCHANGED <<days, initial_cash, var_window, confidence_level, call, emitted,
                   ncalls, bought>>

NextPair == DayStep \/ Report \/ RunOther

InitPair == Init /\ var_window = 2

SpecPair == InitPair /\ [][NextPair]_vars

\* ------------------------------------------------ direct Portfolio calls
\* Prices of direct calls, in thousandths.
CallPrices == {2 * Unit, 3 * Unit}

InitPortfolio ==
    /\ days = 0
    /\ initial_cash = CashUnits * Unit
    /\ var_window = 1
    /\ confidence_level = Frac(ConfidencePct, 100)
    /\ asset_data = [a \in Symbols |-> <<>>]
    /\ asset_returns = [a \in Symbols |-> <<>>]
    /\ strategy = NewStrategy(1, 1, PositionSize)
    /\ portfolio = Portfolio(initial_cash)
    /\ portfolio_values = <<>>
    /\ portfolio_returns = <<>>
    /\ var_reports = <<>>
    /\ rolling_returns = <<>>
    /\ day = 0
    /\ pc = "idle"
    /\ historical_data = <<>>
    /\ signals = <<>>
    /\ fills = <<>>
    /\ report = NoReport
    /\ run = 0
    /\ first_report = NoReport
    /\ start_is_long = FALSE
    /\ call = NoCall
    /\ emitted = <<>>
    /\ ncalls = 0
    /\ bought = EmptyMap

EngineIdle ==
    UNCHANGED <<days, initial_cash, var_window, confidence_level, asset_data,
                asset_returns, portfolio_values, portfolio_returns, var_reports,
                rolling_returns, day, pc, fills,
                report, run, first_report, start_is_long>>

\* A call portfolio.execute_buy_order(symbol, quantity, price).
BuyCall ==
    /\ pc = "idle"
    /\ ncalls < MaxCalls
    /\ \E symbol \in Symbols, quantity \in 1..MaxQty, price \in CallPrices :
           /\ portfolio' = execute_buy_order(portfolio, symbol, quantity, price)
           /\ call' = [op |-> "BUY", symbol |-> symbol, quantity |-> quantity,
                       price |-> price,
                       held |-> IF symbol \in DOMAIN portfolio.positions
                                THEN portfolio.positions[symbol] ELSE 0]
           /\ bought' =
                  IF symbol \in DOMAIN bought
                  THEN Put(bought, symbol,
                           [cost |-> bought[symbol].cost + quantity * price,
                            quantity |-> bought[symbol].quantity + quantity])
                  ELSE IF symbol \notin DOMAIN portfolio.positions
                  THEN Put(bought, symbol,
                           [cost |-> quantity * price, quantity |-> quantity])
                  ELSE bought
    /\ ncalls' = ncalls + 1
    /\ EngineIdle
    /\ UNCHANGED <<strategy, historical_data, signals, emitted>>

\* A call portfolio.execute_sell_order(symbol, quantity, price).
SellCall ==
    /\ pc = "idle"
    /\ ncalls < MaxCalls
    /\ \E symbol \in Symbols, quantity \in 1..MaxQty, price \in CallPrices :
           /\ portfolio' = execute_sell_order(portfolio, symbol, quantity, price)
           /\ call' = [op |-> "SELL", symbol |-> symbol, quantity |-> quantity,
                       price |-> price,
                       held |-> IF symbol \in DOMAIN portfolio.positions
                                THEN portfolio.positions[symbol] ELSE 0]
           /\ bought' = Del(bought, symbol)
    /\ ncalls' = ncalls + 1
    /\ EngineIdle
    /\ UNCHANGED <<strategy, historical_data, signals, emitted>>

\* The price maps passed to direct calls: prices for any subset of the symbols.
PriceMaps == UNION {[priced -> CallPrices] : priced \in SUBSET Symbols}

\* A call portfolio.get_portfolio_value(current_prices).
ValueCall ==
    /\ pc = "idle"
    /\ ncalls < MaxCalls
    /\ \E current_prices \in PriceMaps :
           call' = [op |-> "VALUE", current_prices |-> current_prices,
                    value |-> get_portfolio_value(portfolio, current_prices)]
    /\ ncalls' = ncalls + 1
    /\ EngineIdle
    /\ UNCHANGED <<portfolio, bought, strategy, historical_data, signals, emitted>>

NextPortfolio == BuyCall \/ SellCall \/ ValueCall

SpecPortfolio == InitPortfolio /\ [][NextPortfolio]_vars

\* -------------------------------------------------- direct strategy calls
\* Closes of the bars passed to direct calls, in thousandths.
CallCloses == {1 * Unit, 2 * Unit}

\* The bar lists passed to direct calls: every list of at most MaxDays bars.
Histories ==
    UNION {[1..n -> {[symbol |-> Assets[1], close |-> c] : c \in CallCloses}] :
              n \in 0..MaxDays}

InitStrategy ==
    /\ days = 0
    /\ initial_cash = 0
    /\ var_window = 1
    /\ confidence_level = Frac(ConfidencePct, 100)
    /\ asset_data = [a \in Symbols |-> <<>>]
    /\ asset_returns = [a \in Symbols |-> <<>>]
    /\ \E short_period \in ShortPeriods, long_period \in 1..MaxLong :
           strategy = NewStrategy(short_period, long_period, PositionSize)
    /\ portfolio = Portfolio(0)
    /\ portfolio_values = <<>>
    /\ portfolio_returns = <<>>
    /\ var_reports = <<>>
    /\ rolling_returns = <<>>
    /\ day = 0
    /\ pc = "idle"
    /\ historical_data = <<>>
    /\ signals = <<>>
    /\ fills = <<>>
    /\ report = NoReport
    /\ run = 0
    /\ first_report = NoReport
    /\ start_is_long = FALSE
    /\ call = NoCall
    /\ emitted = <<>>
    /\ ncalls = 0
    /\ bought = EmptyMap

\* A call strategy.generate_signals(ohlc_data).
SignalCall ==
    /\ pc = "idle"
    /\ ncalls < MaxCalls
    /\ \E ohlc_data \in Histories :
           LET out == generate_signals(strategy, ohlc_data)
           IN  /\ historical_data' = ohlc_data
               /\ signals' = out.signals
               /\ strategy' = [strategy EXCEPT !.is_long = out.is_long]
               /\ emitted' = emitted \o [i \in DOMAIN out.signals |-> out.signals[i][1]]
               /\ call' = IF WarmUp(Len(ohlc_data), strategy.long_period)
                          THEN [op |-> "SIGNALS", warm_up |-> TRUE]
                          ELSE [op |-> "SIGNALS", warm_up |-> FALSE,
                                ma |-> MovingAverages(strategy, ohlc_data)]
    /\ ncalls' = ncalls + 1
    /\ EngineIdle
    /\ UNCHANGED <<portfolio, bought>>

NextStrategy == SignalCall

SpecStrategy == InitStrategy /\ [][NextStrategy]_vars

\* ------------------------------------------------- direct VaRService calls
\* Returns of the lists passed to direct calls, as whole multiples of 100%.
CallReturns == {FromInt(-1), FromInt(0), FromInt(2)}
\* Portfolio values passed to direct calls, in thousandths.
CallValues == {-Unit, 0, 2 * Unit}
\* Confidence levels passed to direct calls: -0.5, 0.5, 0.8, 0.9, 0.95, 0.975,
\* 0.99 and 1.5.
ConfidenceLevels ==
    {Frac(-1, 2), Frac(1, 2), Frac(4, 5), Frac(9, 10), Frac(19, 20), Frac(39, 40),
     Frac(99, 100), Frac(3, 2)}

\* The return list and the portfolio value the direct calls are made with.
InitVaR ==
    /\ days = 0
    /\ initial_cash = 0
    /\ var_window = 1
    /\ confidence_level = Frac(ConfidencePct, 100)
    /\ asset_data = [a \in Symbols |-> <<>>]
    /\ asset_returns = [a \in Symbols |-> <<>>]
    /\ strategy = NewStrategy(1, 1, PositionSize)
    /\ portfolio = Portfolio(0)
    /\ portfolio_values = <<>>
    /\ portfolio_returns = <<>>
    /\ var_reports = <<>>
    /\ rolling_returns = <<>>
    /\ day = 0
    /\ pc = "idle"
    /\ historical_data = <<>>
    /\ signals = <<>>
    /\ fills = <<>>
    /\ report = NoReport
    /\ run = 0
    /\ first_report = NoReport
    /\ start_is_long = FALSE
    /\ \E n \in 0..MaxReturns :
           \E returns \in [1..n -> CallReturns], portfolio_value \in CallValues :
               call = [op |-> "NONE", returns |-> returns,
                       portfolio_value |-> portfolio_value]
    /\ emitted = <<>>
    /\ ncalls = 0
    /\ bought = EmptyMap

VaRIdle ==
    /\ EngineIdle
    /\ UNCHANGED <<portfolio, bought, strategy, historical_data, signals, emitted,
                   ncalls>>

\* A call VaRService.historical_var(returns, c, portfolio_value).
HistoricalVarCall ==
    /\ pc = "idle"
    /\ \E c \in ConfidenceLevels :
           call' = [op |-> "HVAR", returns |-> call.returns,
                    portfolio_value |-> call.portfolio_value,
                    confidence_level |-> c,
                    result |-> historical_var(call.returns, c, call.portfolio_value)]
    /\ VaRIdle

\* A call VaRService.parametric_var(returns, c, portfolio_value); variance is
\* the square of the std_dev factor of the result.
ParametricVarCall ==
    /\ pc = "idle"
    /\ \E c \in ConfidenceLevels :
           LET result == parametric_var(call.returns, c, call.portfolio_value)
           IN  call' = [op |-> "PVAR", returns |-> call.returns,
                        portfolio_value |-> call.portfolio_value,
                        confidence_level |-> c,
                        result |-> result,
                        variance |-> IF result = Zero THEN Zero
                                     ELSE Variance(result.std_dev_of)]
    /\ VaRIdle

NextVaR == HistoricalVarCall \/ ParametricVarCall

SpecVaR == InitVaR /\ [][NextVaR]_vars

\* ------------------------------------------- max drawdown of a value list
\* Portfolio values of the lists tried, in currency units.
DrawdownValues == {-100, 0, 90, 100, 110, 120}

\* The portfolio_values list the drawdown is computed over.
InitDrawdown ==
    /\ days = 0
    /\ initial_cash = 0
    /\ var_window = 1
    /\ confidence_level = Frac(ConfidencePct, 100)
    /\ asset_data = [a \in Symbols |-> <<>>]
    /\ asset_returns = [a \in Symbols |-> <<>>]
    /\ strategy = NewStrategy(1, 1, PositionSize)
    /\ portfolio = Portfolio(0)
    /\ \E n \in 0..MaxValues : portfolio_values \in [1..n -> DrawdownValues]
    /\ portfolio_returns = <<>>
    /\ var_reports = <<>>
    /\ rolling_returns = <<>>
    /\ day = 0
    /\ pc = "idle"
    /\ historical_data = <<>>
    /\ signals = <<>>
    /\ fills = <<>>
    /\ report = NoReport
    /\ run = 0
    /\ first_report = NoReport
    /\ start_is_long = FALSE
    /\ call = NoCall
    /\ emitted = <<>>
    /\ ncalls = 0
    /\ bought = EmptyMap

\* Lines 333-341 applied to portfolio_values.
DrawdownCall ==
    /\ pc = "idle"
    /\ call = NoCall
    /\ call' = [op |-> "DRAWDOWN", max_drawdown |-> MaxDrawdown(portfolio_values, 0, Zero)]
    /\ VaRIdle

NextDrawdown == DrawdownCall

SpecDrawdown == InitDrawdown /\ [][NextDrawdown]_vars

\* ------------------------------------- compute_features: input validation
\* Column names of the DataFrames and price_col arguments tried.
FeatureColumns == {"close", "open"}

\* Window arguments tried: integers, the floats 2.5 and -0.5, float('nan'), the
\* strings "2" and "bad", and None.  n / d is the number, text the string.
WindowArgs ==
    {[kind |-> "int", n |-> k, d |-> 1, text |-> ""] :
         k \in (-MaxWindowArg)..MaxWindowArg}
    \cup {[kind |-> "float", n |-> 5, d |-> 2, text |-> ""],
          [kind |-> "float", n |-> -1, d |-> 2, text |-> ""],
          [kind |-> "nan", n |-> 0, d |-> 1, text |-> ""],
          [kind |-> "str", n |-> 0, d |-> 1, text |-> "2"],
          [kind |-> "str", n |-> 0, d |-> 1, text |-> "bad"],
          [kind |-> "None", n |-> 0, d |-> 1, text |-> ""]}

\* int(x) raises: TypeError for None, ValueError for float('nan') and for a
\* string that is not an integer literal.
IntRaises(x) ==
    \/ x.kind \in {"None", "nan"}
    \/ x.kind = "str" /\ x.text # "2"

\* int(x) where it does not raise: a float is truncated, "2" is parsed.
IntOf(x) ==
    IF x.kind = "str" THEN 2
    ELSE Trunc([n |-> x.n, d |-> x.d])

\* Line 15: window_long = max(window_short, int(window_long))
EffectiveMutLong(window_short, long) == Max(1, long)
EffectiveLong(window_short, long) == Max(window_short, long)

ValueError == [raised |-> "ValueError", window_short |-> 0, window_long |-> 0]

\* compute_features, lines 8-17: the exception raised, or the windows the rest of
\* the function works with.
compute_features(columns, price_col, window_short, window_long) ==
    IF price_col \notin columns THEN ValueError
    ELSE IF IntRaises(window_short) THEN ValueError
    ELSE LET short == Max(1, IntOf(window_short))
         IN  IF IntRaises(window_long) THEN ValueError
             ELSE [raised |-> "none", window_short |-> short,
                   window_long |-> EffectiveLong(short, IntOf(window_long))]

\* The DataFrame's columns and the arguments of the call.
InitFeatures ==
    /\ days = 0
    /\ initial_cash = 0
    /\ var_window = 1
    /\ confidence_level = Frac(ConfidencePct, 100)
    /\ asset_data = [a \in Symbols |-> <<>>]
    /\ asset_returns = [a \in Symbols |-> <<>>]
    /\ strategy = NewStrategy(1, 1, PositionSize)
    /\ portfolio = Portfolio(0)
    /\ portfolio_values = <<>>
    /\ portfolio_returns = <<>>
    /\ var_reports = <<>>
    /\ rolling_returns = <<>>
    /\ day = 0
    /\ pc = "idle"
    /\ historical_data = <<>>
    /\ signals = <<>>
    /\ fills = <<>>
    /\ report = NoReport
    /\ run = 0
    /\ first_report = NoReport
    /\ start_is_long = FALSE
    /\ \E columns \in SUBSET FeatureColumns, price_col \in FeatureColumns,
          window_short \in WindowArgs, window_long \in WindowArgs :
           call = [op |-> "NONE", columns |-> columns, price_col |-> price_col,
                   window_short |-> window_short, window_long |-> window_long]
    /\ emitted = <<>>
    /\ ncalls = 0
    /\ bought = EmptyMap

\* A call compute_features(df, price_col, window_short, window_long).
FeaturesCall ==
    /\ pc = "idle"
    /\ call.op = "NONE"
    /\ call' = [op |-> "FEATURES", columns |-> call.columns,
                price_col |-> call.price_col,
                window_short |-> call.window_short,
                window_long |-> call.window_long,
                outcome |-> compute_features(call.columns, call.price_col,
                                             call.window_short, call.window_long)]
    /\ VaRIdle

NextFeatures == FeaturesCall

SpecFeatures == InitFeatures /\ [][NextFeatures]_vars

\* ================================================================ claims
PrimaryData == asset_data[Assets[1]]
LoopOver == pc \in {"done", "raised"}
StrictlyIncreasing(bars) == \A i \in 1..(Len(bars) - 1) : bars[i].close < bars[i + 1].close
FillsOf(action) == {i \in DOMAIN fills : fills[i].action = action}
\* A run over a strictly increasing primary close path with short_period <
\* long_period that is long enough to get past the warm-up.
UptrendRun ==
    /\ pc # "idle"
    /\ StrictlyIncreasing(PrimaryData)
    /\ strategy.short_period < strategy.long_period
    /\ days > strategy.long_period

\* C1 as stated: a finished run over a strictly increasing primary close path with
\* short_period < long_period logs exactly one BUY and no SELL.
C1_UptrendOneBuy ==
    (UptrendRun /\ LoopOver) =>
        (Cardinality(FillsOf("BUY")) = 1 /\ FillsOf("SELL") = {})

\* C1 amended: over a strictly increasing primary close path with short_period <
\* long_period a fresh strategy never emits a signal: no BUY, no SELL, and it
\* stays FLAT for the whole run.
C1_UptrendNoSignal ==
    UptrendRun => (fills = <<>> /\ signals = <<>> /\ ~strategy.is_long)

\* An uptrend run is over after at least two calls past the warm-up.
C1_Witness ==
    UptrendRun /\ LoopOver /\ Len(historical_data) >= strategy.long_period + 2

\* C2: run_backtest never aborts, and a ratio whose denominator is zero or
\* negative (here the total return over initial_cash <= 0) is reported as 0.
C2_NeverAborts ==
    /\ pc # "raised"
    /\ (pc = "done" /\ initial_cash <= 0) => report.total_return_pct = Zero

\* C3 as stated: a second run with the same arguments, bars and strategy returns
\* a report equal to the first in every field.
C3_SameStrategySameReport ==
    (run = 2 /\ LoopOver) => report = first_report

\* C3 amended: a second run with the same arguments and bars returns a report
\* equal to the first (or raises as the first did) when the strategy is FLAT at
\* its start, as it was at the start of the first run.
C3_SameStateSameReport ==
    (run = 2 /\ LoopOver /\ ~start_is_long) => report = first_report

\* A second run that traded is over and agrees with the first.
C3_Witness ==
    /\ run = 2
    /\ pc = "done"
    /\ ~start_is_long
    /\ fills # <<>>
    /\ report = first_report

\* C4: the latest generate_signals call of the loop got exactly the primary
\* asset's bars 0..d of its day d, in order, and every fill of a day d is priced
\* from the close of bar d alone.
C4_NoLookAhead ==
    /\ (pc # "idle" /\ day > 1) =>
           /\ Len(historical_data) = day
           /\ \A i \in 1..day : historical_data[i] = PrimaryData[i]
    /\ \A i \in DOMAIN fills :
           LET close == PrimaryData[fills[i].day + 1].close
           IN  /\ fills[i].day < day
               /\ fills[i].action = "BUY" =>
                      fills[i].fill_price * SlipScale = close * (SlipScale + SlipRate)
               /\ fills[i].action = "SELL" =>
                      fills[i].fill_price * SlipScale = close * (SlipScale - SlipRate)

\* A day before the last one has just been traded on a signal.
C4_Witness ==
    pc = "loop" /\ day > 1 /\ day < days /\ signals # <<>>

\* The moving average the strategy reads off `closes` for `period`, as
\* <<sum, count>>: the sum of the last `period` closes, 0 when there are fewer.
RECURSIVE SumRange(_, _, _)
SumRange(closes, from, to) ==
    IF from > to THEN 0 ELSE closes[from] + SumRange(closes, from + 1, to)
AverageOf(closes, upto, period) ==
    IF upto < period THEN <<0, 1>>
    ELSE <<SumRange(closes, upto - period + 1, upto), period>>
Below(a, b) == a[1] * b[2] < b[1] * a[2]
NotAbove(a, b) == a[1] * b[2] <= b[1] * a[2]
\* The crossovers of a bar list that is past the warm-up of strategy st.
PastWarmUp(st, bars) == Len(bars) >= st.long_period + 1
ClosesOf(bars) == [i \in DOMAIN bars |-> bars[i].close]
BullishOn(st, bars) ==
    LET c == ClosesOf(bars)
        n == Len(bars)
    IN  /\ PastWarmUp(st, bars)
        /\ NotAbove(AverageOf(c, n - 1, st.short_period), AverageOf(c, n - 1, st.long_period))
        /\ Below(AverageOf(c, n, st.long_period), AverageOf(c, n, st.short_period))
BearishOn(st, bars) ==
    LET c == ClosesOf(bars)
        n == Len(bars)
    IN  /\ PastWarmUp(st, bars)
        /\ NotAbove(AverageOf(c, n - 1, st.long_period), AverageOf(c, n - 1, st.short_period))
        /\ Below(AverageOf(c, n, st.short_period), AverageOf(c, n, st.long_period))
Emits(sigs, action) == Len(sigs) = 1 /\ sigs[1][1] = action

\* C5: a generate_signals call emits a BUY and goes FLAT to LONG exactly when it
\* is FLAT and a bullish crossover holds, emits a SELL and goes LONG to FLAT
\* exactly when it is LONG and a bearish crossover holds, and otherwise emits
\* nothing and keeps is_long (equal averages today, a bullish crossover while
\* LONG and a bearish one while FLAT included).
C5_Transitions ==
    [][ncalls' = ncalls + 1 =>
          LET bars == historical_data'
              bull == BullishOn(strategy, bars)
              bear == BearishOn(strategy, bars)
              last == bars[Len(bars)]
          IN  /\ Emits(signals', "BUY") <=> (~strategy.is_long /\ bull)
              /\ Emits(signals', "SELL") <=> (strategy.is_long /\ bear)
              /\ Emits(signals', "BUY") =>
                     /\ strategy'.is_long
                     /\ signals'[1] = <<"BUY", last.symbol, strategy.position_size, last.close>>
              /\ Emits(signals', "SELL") =>
                     /\ ~strategy'.is_long
                     /\ signals'[1] = <<"SELL", last.symbol, strategy.position_size, last.close>>
              /\ ~(Emits(signals', "BUY") \/ Emits(signals', "SELL")) =>
                     /\ signals' = <<>>
                     /\ strategy'.is_long = strategy.is_long
    ]_vars

\* A strategy has gone FLAT to LONG and back to FLAT.
C5_Witness ==
    pc = "idle" /\ Len(emitted) >= 2 /\ Emits(signals, "SELL") /\ ~strategy.is_long

\* C6: over the calls made on a fresh strategy each call emits at most one signal
\* and the emitted actions alternate BUY, SELL, BUY, ... starting with BUY.
C6_Alternation ==
    /\ Len(signals) <= 1
    /\ \A i \in DOMAIN emitted : emitted[i] = (IF i % 2 = 1 THEN "BUY" ELSE "SELL")
    /\ strategy.is_long <=> (Len(emitted) % 2 = 1)

\* A strategy has emitted BUY, SELL and BUY again.
C6_Witness ==
    pc = "idle" /\ Len(emitted) >= 3

\* C7: no fill happens on a day d < long_period, and a run with long_period >= D
\* completes with a report, zero trades, final cash equal to initial cash and no
\* positions.
C7_WarmUpRun ==
    /\ \A i \in DOMAIN fills : fills[i].day >= strategy.long_period
    /\ (LoopOver /\ strategy.long_period >= days) =>
           /\ pc = "done"
           /\ report.status = "SUCCESS"
           /\ fills = <<>>
           /\ portfolio.cash = initial_cash
           /\ portfolio.positions = EmptyMap

\* The first VaR record is that of day var_window - 1, the day at which
\* portfolio_returns first has var_window entries; none is earlier; there is one
\* once a loop day at or after day var_window - 1 is over, and when the run is.
FirstVarAtWindow ==
    /\ \A i \in DOMAIN var_reports : var_reports[i].date >= var_window - 1
    /\ var_reports # <<>> => var_reports[1].date = var_window - 1
    /\ (day > 1 /\ day > var_window - 1) => var_reports # <<>>
    /\ LoopOver => var_reports # <<>>

\* C8 as stated: for every window W and D >= W the first VaR record is produced
\* on day W - 1 and none earlier.
C8_FirstVarAnyWindow ==
    (pc # "idle" /\ days >= var_window) => FirstVarAtWindow

\* C8 amended: for every window W >= 2 and D >= W the first VaR record is
\* produced on day W - 1, the day at which len(portfolio_returns) first equals W,
\* and none earlier.
C8_FirstVar ==
    (pc # "idle" /\ var_window >= 2 /\ days >= var_window) => FirstVarAtWindow

\* A run with a window of at least 2 is over with two records or more.
C8_Witness ==
    LoopOver /\ var_window >= 2 /\ Len(var_reports) >= 2

\* C9: after any direct buys and sells with positive quantities, positions and
\* average_costs have the same keys and every stored quantity is positive.
C9_Ledger ==
    /\ DOMAIN portfolio.positions = DOMAIN portfolio.average_costs
    /\ \A s \in DOMAIN portfolio.positions : portfolio.positions[s] > 0

\* A sell has just closed one position exactly while another stays open.
C9_Witness ==
    /\ call.op = "SELL"
    /\ call.held = call.quantity
    /\ call.symbol \notin DOMAIN portfolio.positions
    /\ DOMAIN portfolio.positions # {}

\* C10: a sell credits cash with the full quantity * price; a resulting quantity
\* <= 0 removes the symbol from both maps, so no quantity <= 0 is ever stored; a
\* smaller sell leaves the rest; a sell of a symbol not held changes neither map.
C10_Sell ==
    [][(ncalls' = ncalls + 1 /\ call'.op = "SELL") =>
          LET s == call'.symbol
              q == call'.quantity
          IN  /\ portfolio'.cash = portfolio.cash + q * call'.price
              /\ \A x \in DOMAIN portfolio'.positions : portfolio'.positions[x] > 0
              /\ IF s \in DOMAIN portfolio.positions
                 THEN IF portfolio.positions[s] - q <= 0
                      THEN /\ s \notin DOMAIN portfolio'.positions
                           /\ s \notin DOMAIN portfolio'.average_costs
                      ELSE portfolio'.positions[s] = portfolio.positions[s] - q
                 ELSE /\ portfolio'.positions = portfolio.positions
                      /\ portfolio'.average_costs = portfolio.average_costs
    ]_vars

\* A sell of more than the held quantity has just removed the position.
C10_Witness ==
    /\ call.op = "SELL"
    /\ call.held > 0
    /\ call.quantity > call.held
    /\ call.symbol \notin DOMAIN portfolio.positions

\* C11: after buys of positive quantities at positive prices on a symbol that was
\* not held before them, with no sell since, the symbol's average cost is the sum
\* of quantity * price over those buys divided by the sum of their quantities,
\* and its position is the sum of their quantities.
C11_WeightedAverage ==
    \A s \in DOMAIN bought :
        /\ s \in DOMAIN portfolio.positions
        /\ s \in DOMAIN portfolio.average_costs
        /\ portfolio.positions[s] = bought[s].quantity
        /\ portfolio.average_costs[s] = Frac(bought[s].cost, bought[s].quantity)

\* Three buys on one symbol, at two different prices.
C11_Witness ==
    /\ ncalls = 3
    /\ \E s \in DOMAIN bought :
           /\ bought[s].quantity >= 4
           /\ bought[s].cost % bought[s].quantity # 0
           /\ call.op = "BUY" /\ call.symbol = s /\ call.held >= 2

\* C12: a sell of a quantity strictly smaller than the held quantity lowers the
\* symbol's position by exactly that quantity and leaves its average cost, and
\* every other symbol's position and average cost, unchanged.
C12_PartialSell ==
    [][(/\ ncalls' = ncalls + 1
        /\ call'.op = "SELL"
        /\ call'.symbol \in DOMAIN portfolio.positions
        /\ call'.quantity < portfolio.positions[call'.symbol])
       => (/\ DOMAIN portfolio'.positions = DOMAIN portfolio.positions
           /\ portfolio'.positions[call'.symbol]
                  = portfolio.positions[call'.symbol] - call'.quantity
           /\ \A t \in DOMAIN portfolio.positions \ {call'.symbol} :
                  portfolio'.positions[t] = portfolio.positions[t]
           /\ portfolio'.average_costs = portfolio.average_costs)]_vars

\* A partial sell at a price other than the average cost, another symbol held.
C12_Witness ==
    /\ call.op = "SELL"
    /\ call.quantity < call.held
    /\ call.symbol \in DOMAIN portfolio.positions
    /\ portfolio.average_costs[call.symbol] # FromInt(call.price)
    /\ DOMAIN portfolio.positions = Symbols

\* C13: every signal emitted on day d is filled on day d for its whole quantity, a
\* BUY at close[d] * (1 + 0.001) and a SELL at close[d] * (1 - 0.001); a BUY is
\* filled whatever the cash is, and takes exactly quantity * fill price from it.
C13_FillModel ==
    [][(pc = "loop" /\ day' = day + 1) =>
       LET close == PrimaryData[day + 1].close
           held(p, s) == IF s \in DOMAIN p.positions THEN p.positions[s] ELSE 0
       IN  /\ Len(fills') = Len(fills) + Len(signals')
           /\ SubSeq(fills', 1, Len(fills)) = fills
           /\ Len(signals') <= 1
           /\ \A i \in DOMAIN signals' :
                  LET sig == signals'[i]
                      f == fills'[Len(fills) + i]
                  IN  /\ sig[4] = close
                      /\ f.day = day
                      /\ f.action = sig[1]
                      /\ f.symbol = sig[2]
                      /\ f.quantity = sig[3]
                      /\ sig[1] \in {"BUY", "SELL"}
                      /\ sig[1] = "BUY" =>
                             /\ f.fill_price * SlipScale = close * (SlipScale + SlipRate)
                             /\ portfolio'.cash = portfolio.cash - sig[3] * f.fill_price
                             /\ held(portfolio', sig[2]) = held(portfolio, sig[2]) + sig[3]
                      /\ sig[1] = "SELL" =>
                             /\ f.fill_price * SlipScale = close * (SlipScale - SlipRate)
                             /\ portfolio'.cash = portfolio.cash + sig[3] * f.fill_price
                             /\ held(portfolio', sig[2]) = held(portfolio, sig[2]) - sig[3]
           /\ signals' = <<>> => portfolio' = portfolio]_vars

\* A BUY was filled on the day of its signal although the cash did not cover it.
C13_Witness ==
    /\ pc = "loop"
    /\ initial_cash = 0
    /\ signals # <<>>
    /\ signals[1][1] = "BUY"
    /\ fills # <<>>
    /\ fills[Len(fills)].action = "BUY"
    /\ fills[Len(fills)].day = day - 1
    /\ portfolio.cash = -(fills[Len(fills)].quantity * fills[Len(fills)].fill_price)
    /\ portfolio.cash < 0

\* C14: get_portfolio_value returns cash plus quantity * price over exactly the
\* symbols that are both held and priced; a held symbol without a price and a
\* priced symbol that is not held add nothing, and the call returns a value.
C14_MarkToMarket ==
    call.op = "VALUE" =>
        LET worth(s) == IF s \in DOMAIN portfolio.positions
                           /\ s \in DOMAIN call.current_prices
                        THEN portfolio.positions[s] * call.current_prices[s]
                        ELSE 0
        IN  call.value = portfolio.cash + worth("ASSET_A") + worth("ASSET_B")

\* Both symbols held, one of them priced, the other not.
C14_Witness ==
    /\ call.op = "VALUE"
    /\ DOMAIN portfolio.positions = Symbols
    /\ Cardinality(DOMAIN call.current_prices) = 1
    /\ call.value > portfolio.cash

\* The element of index i (from 0) of the list sorted ascending.
SortedAt(returns, i) ==
    CHOOSE x \in {returns[k] : k \in DOMAIN returns} :
        /\ Cardinality({k \in DOMAIN returns : FracLT(returns[k], x)}) <= i
        /\ i < Cardinality({k \in DOMAIN returns : FracLE(returns[k], x)})
\* floor of a fraction
Floor(x) == x.n \div x.d
\* floor((1 - c) * n) clamped to [0, n - 1]
ClampedIndex(c, n) ==
    Max(0, Min(n - 1, Floor(FracMul(FracAdd(FromInt(1), FracNeg(c)), FromInt(n)))))

\* C15: for a non-empty window R and a positive portfolio value, historical_var is
\* -S[i] * portfolio_value with S the sorted window and i = floor((1 - c) * len(R))
\* clamped to [0, len(R) - 1], for every confidence level c.
C15_HistoricalVar ==
    (call.op = "HVAR" /\ call.returns # <<>> /\ call.portfolio_value > 0) =>
        LET i == ClampedIndex(call.confidence_level, Len(call.returns))
        IN  /\ i \in 0..(Len(call.returns) - 1)
            /\ call.result = FracMul(FracNeg(SortedAt(call.returns, i)),
                                     FromInt(call.portfolio_value))

\* C16: for a fixed non-empty window and a positive portfolio value, a call with a
\* confidence level at least that of the previous call returns at least as much.
C16_Monotone ==
    [][(/\ call.op = "HVAR"
        /\ call'.op = "HVAR"
        /\ call.returns # <<>>
        /\ call.portfolio_value > 0
        /\ FracLE(call.confidence_level, call'.confidence_level))
       => (/\ call'.returns = call.returns
           /\ call'.portfolio_value = call.portfolio_value
           /\ FracLE(call.result, call'.result))]_vars

\* The highest level on a window of several distinct returns: the worst return.
C16_Witness ==
    /\ call.op = "HVAR"
    /\ call.portfolio_value > 0
    /\ Len(call.returns) = MaxReturns
    /\ Cardinality({call.returns[k] : k \in DOMAIN call.returns}) = 3
    /\ call.confidence_level = Frac(99, 100)
    /\ call.result = FromInt(call.portfolio_value)

\* The variance as the mean square of the pairwise differences: no mean in it.
RECURSIVE PairSquares(_)
PairSquares(returns) ==
    IF returns = <<>> THEN Zero
    ELSE FracAdd(SumFrac([i \in DOMAIN Tail(returns) |->
                             LET diff == FracAdd(Head(returns), FracNeg(Tail(returns)[i]))
                             IN  FracMul(diff, diff)]),
                 PairSquares(Tail(returns)))
PopulationVariance(returns) ==
    FracDiv(PairSquares(returns), FromInt(Len(returns) * Len(returns)))

\* C17: past the guard parametric_var is z(c) * population standard deviation of
\* R * portfolio_value, with z = 1.28, 1.65, 2.33 for c = 0.90, 0.95, 0.99 and 1.65
\* for every other c; no factor is negative, and the guarded result is 0.
C17_ParametricVar ==
    call.op = "PVAR" =>
        IF call.returns = <<>> \/ call.portfolio_value <= 0
        THEN call.result = Zero
        ELSE /\ call.result.z =
                    (IF call.confidence_level = Frac(90, 100) THEN Frac(128, 100)
                     ELSE IF call.confidence_level = Frac(95, 100) THEN Frac(165, 100)
                     ELSE IF call.confidence_level = Frac(99, 100) THEN Frac(233, 100)
                     ELSE Frac(165, 100))
             /\ call.result.std_dev_of = call.returns
             /\ call.variance = PopulationVariance(call.returns)
             /\ call.result.portfolio_value = call.portfolio_value
             /\ call.result.z.n > 0
             /\ call.variance.n >= 0
             /\ call.result.portfolio_value > 0

\* A level outside the table (0.975) on a window with a non-zero mean and a
\* non-zero deviation.
C17_Witness ==
    /\ call.op = "PVAR"
    /\ call.confidence_level = Frac(975, 1000)
    /\ call.portfolio_value > 0
    /\ Len(call.returns) >= 3
    /\ SumFrac(call.returns) # Zero
    /\ call.variance.n > 0
    /\ call.variance.d > 1

\* C18: historical_var and parametric_var return 0.0 whenever the window is empty
\* or the portfolio value is not positive, for every confidence level.
C18_Guard ==
    (call.op \in {"HVAR", "PVAR"}
     /\ (call.returns = <<>> \/ call.portfolio_value <= 0))
        => call.result = Zero

\* A call with a non-empty window of non-zero returns and a negative value.
C18_Witness ==
    /\ call.op \in {"HVAR", "PVAR"}
    /\ call.portfolio_value < 0
    /\ call.returns # <<>>
    /\ \A k \in DOMAIN call.returns : call.returns[k] # Zero
    /\ call.result = Zero

\* The largest value among values[1..j].
PeakAt(values, j) ==
    CHOOSE v \in {values[k] : k \in 1..j} : \A k \in 1..j : values[k] <= v
\* The drawdown terms (peak_j - v_j) / peak_j, 0 when peak_j <= 0.
DrawdownTerms(values) ==
    {IF PeakAt(values, j) > 0
     THEN Frac(PeakAt(values, j) - values[j], PeakAt(values, j))
     ELSE Zero : j \in DOMAIN values}

\* C19: the max drawdown over portfolio_values is the largest of the terms
\* (peak_j - v_j) / peak_j, with peak_j the largest of the first j values and the
\* term 0 when peak_j <= 0; over [100, 120, 90, 110] it is 0.25.
C19_MaxDrawdown ==
    call.op = "DRAWDOWN" =>
        /\ portfolio_values = <<>> => call.max_drawdown = Zero
        /\ portfolio_values # <<>> =>
               /\ call.max_drawdown \in DrawdownTerms(portfolio_values)
               /\ \A t \in DrawdownTerms(portfolio_values) : FracLE(t, call.max_drawdown)
        /\ portfolio_values = <<100, 120, 90, 110>> => call.max_drawdown = Frac(25, 100)

\* The drawdown of [100, 120, 90, 110] has been computed.
C19_Witness ==
    /\ call.op = "DRAWDOWN"
    /\ portfolio_values = <<100, 120, 90, 110>>
    /\ call.max_drawdown = Frac(1, 4)

\* The primary asset's closes are all equal.
ConstantPrimary ==
    \A i \in DOMAIN PrimaryData : PrimaryData[i].close = PrimaryData[1].close

\* C20: over a constant close-price series, whatever the strategy's periods,
\* calculate_daily_returns yields only zeros and no call of generate_signals on a
\* prefix of the series emits a signal: nothing is filled and is_long stays False.
C20_ConstantPrices ==
    (pc # "idle" /\ ConstantPrimary) =>
        /\ \A i \in DOMAIN asset_returns[Assets[1]] : asset_returns[Assets[1]][i] = Zero
        /\ Len(asset_returns[Assets[1]]) >= Len(PrimaryData)
        /\ signals = <<>>
        /\ fills = <<>>
        /\ ~strategy.is_long
        /\ DOMAIN portfolio.positions = {}

\* A run over a constant series of the full length is over, the strategy having
\* been called past its warm-up.
C20_Witness ==
    /\ LoopOver
    /\ ConstantPrimary
    /\ days = MaxDays
    /\ Len(historical_data) = days
    /\ ~WarmUp(Len(historical_data), strategy.long_period)
    /\ strategy.short_period > strategy.long_period
    /\ Len(asset_returns[Assets[1]]) = days

\* C21: calculate_daily_returns returns a list as long as its input, whose first
\* element is 0 and whose element i is close[i] / close[i-1] - 1.
C21_ReturnAlignment ==
    pc # "idle" =>
        \A a \in Symbols :
            /\ Len(asset_returns[a]) = Len(asset_data[a])
            /\ \A i \in DOMAIN asset_returns[a] :
                   asset_returns[a][i] =
                       IF i = 1 THEN Zero
                       ELSE FracAdd(Frac(asset_data[a][i].close, asset_data[a][i - 1].close),
                                    FromInt(-1))

\* The window argument can be converted to an integer.
Convertible(x) == x.kind \in {"int", "float"} \/ (x.kind = "str" /\ x.text = "2")

\* C22: compute_features raises ValueError when price_col is not a column or a
\* window argument cannot be converted to an integer; integer windows, also those
\* below 1, are accepted and coerced: window_short to at least 1, window_long to
\* at least window_short.
C22_FeatureValidation ==
    call.op = "FEATURES" =>
        /\ call.price_col \notin call.columns => call.outcome.raised = "ValueError"
        /\ (~Convertible(call.window_short) \/ ~Convertible(call.window_long))
               => call.outcome.raised = "ValueError"
        /\ (/\ call.price_col \in call.columns
            /\ call.window_short.kind = "int"
            /\ call.window_long.kind = "int")
               => /\ call.outcome.raised = "none"
                  /\ 1 <= call.outcome.window_short
                  /\ call.outcome.window_short <= call.outcome.window_long
                  /\ call.window_short.n >= 1
                         => call.outcome.window_short = call.window_short.n
                  /\ call.window_long.n >= call.outcome.window_short
                         => call.outcome.window_long = call.window_long.n

\* Integer windows below 1 and in the wrong order were accepted and coerced.
C22_Witness ==
    /\ call.op = "FEATURES"
    /\ call.window_short.kind = "int"
    /\ call.window_long.kind = "int"
    /\ call.window_long.n < 1
    /\ call.window_short.n > 1
    /\ call.outcome.raised = "none"
    /\ call.outcome.window_long = call.window_short.n

\* C23: whenever a VaR record is computed, the window passed to the VaR functions
\* is the var_window most recent entries of portfolio_returns in their order: its
\* length is var_window and its last element is the day's return.
C23_RollingWindow ==
    [][(pc = "loop" /\ day' = day + 1 /\ Len(var_reports') > Len(var_reports)) =>
       LET n == Len(portfolio_returns')
       IN  /\ Len(rolling_returns') = var_window
           /\ rolling_returns' = [i \in 1..var_window |->
                                     portfolio_returns'[n - var_window + i]]
           /\ rolling_returns'[var_window] = portfolio_returns'[n]]_vars

\* One loop day: a record is appended exactly when the returns have reached the
\* window size, and the records before it stay as they were.
RecordStep ==
    (pc = "loop" /\ day' = day + 1) =>
        /\ Len(portfolio_returns') >= var_window
               => /\ Len(var_reports') = Len(var_reports) + 1
                  /\ var_reports'[Len(var_reports')].date = day
        /\ Len(portfolio_returns') < var_window => Len(var_reports') = Len(var_reports)
        /\ SubSeq(var_reports', 1, Len(var_reports)) = var_reports
\* A run whose window size exceeds the day count ends without records, with a
\* record count of 0 and average VaRs of 0 in its report.
NoRecordRun ==
    (LoopOver /\ var_window > days) =>
        /\ var_reports = <<>>
        /\ report.status = "SUCCESS"
        /\ report.var_reports_count = 0
        /\ report.avg_historical_var = Zero
        /\ report.avg_parametric_var = Zero
        /\ report.daily_var_reports = <<>>

\* C24: on every loop day with len(portfolio_returns) >= W exactly one VaR record
\* is appended, on every other day none, and appended records are never changed,
\* reordered or removed; a run whose window size exceeds the day count ends with
\* no record, a record count of 0 and average VaRs of 0.
C24_RecordSequence ==
    /\ [][RecordStep]_vars
    /\ [](NoRecordRun)

\* The worth at the closes of day d of what portfolio p holds.
WorthAt(p, d) ==
    LET worth(a) == IF a \in DOMAIN p.positions
                    THEN p.positions[a] * asset_data[a][d + 1].close
                    ELSE 0
    IN  p.cash + worth("ASSET_A") + worth("ASSET_B")

\* C25: on every day d the value appended is the mark-to-market of the portfolio
\* after the day's fills, the return appended is computed from that value and
\* portfolio_values[d-1], and the VaR record of the day, if any, carries that
\* value and a window that ends with that return.
C25_DayOrder ==
    [][(pc = "loop" /\ day' = day + 1) =>
       LET n == Len(portfolio_values')
           value == portfolio_values'[n]
           prev_value == portfolio_values'[n - 1]
       IN  /\ n = day + 1
           /\ Len(portfolio_returns') = n
           /\ SubSeq(portfolio_values', 1, n - 1) = portfolio_values
           /\ value = WorthAt(portfolio', day)
           /\ portfolio_returns'[n] = IF prev_value > 0
                                      THEN Frac(value - prev_value, prev_value)
                                      ELSE Zero
           /\ Len(var_reports') > Len(var_reports) =>
                  /\ var_reports'[Len(var_reports')].date = day
                  /\ var_reports'[Len(var_reports')].portfolio_value = value
                  /\ rolling_returns'[Len(rolling_returns')] = portfolio_returns'[n]]_vars

\* A day with a fill, a non-zero return and a VaR record has been replayed.
C25_Witness ==
    /\ pc = "loop"
    /\ day >= 2
    /\ fills # <<>>
    /\ fills[Len(fills)].day = day - 1
    /\ var_reports # <<>>
    /\ var_reports[Len(var_reports)].date = day - 1
    /\ portfolio_returns[Len(portfolio_returns)] # Zero
    /\ portfolio_values[Len(portfolio_values)] # portfolio.cash

\* A list of `upto` closes holds the `period` closes an average is taken over.
EnoughCloses(upto, period) == period >= 1 /\ upto >= period

\* C26: in every generate_signals call past the warm-up test, today's and
\* yesterday's short and long moving averages are each the mean of exactly the
\* period's most recent closes: there are enough closes for each, so the 0.0 that
\* calculate_ma returns for a too-short list enters no crossover decision.
C26_RealAverages ==
    (call.op = "SIGNALS" /\ ~call.warm_up) =>
        LET c == ClosesOf(historical_data)
            n == Len(historical_data)
            mean(upto, period) == Frac(SumRange(c, upto - period + 1, upto), period)
        IN  /\ EnoughCloses(n, strategy.short_period)
            /\ EnoughCloses(n, strategy.long_period)
            /\ EnoughCloses(n - 1, strategy.short_period)
            /\ EnoughCloses(n - 1, strategy.long_period)
            /\ call.ma.short_ma = mean(n, strategy.short_period)
            /\ call.ma.long_ma = mean(n, strategy.long_period)
            /\ call.ma.prev_short_ma = mean(n - 1, strategy.short_period)
            /\ call.ma.prev_long_ma = mean(n - 1, strategy.long_period)

\* The ledger matches the strategy's state: nothing held when FLAT, exactly
\* position_size of assets[0] and nothing else when LONG.
LedgerAgrees ==
    pc # "idle" =>
        /\ ~strategy.is_long =>
               /\ DOMAIN portfolio.positions = {}
               /\ DOMAIN portfolio.average_costs = {}
        /\ strategy.is_long =>
               /\ DOMAIN portfolio.positions = {Assets[1]}
               /\ portfolio.positions[Assets[1]] = strategy.position_size
\* A SELL is applied only to a symbol that is held, for the quantity held.
SellsHeld ==
    (pc = "loop" /\ day' = day + 1) =>
        \A i \in DOMAIN signals' :
            signals'[i][1] = "SELL" =>
                /\ signals'[i][2] \in DOMAIN portfolio.positions
                /\ portfolio.positions[signals'[i][2]] = signals'[i][3]

\* C27: in a run started with a fresh strategy and position_size > 0, at the end
\* of every day the portfolio holds nothing when the strategy is FLAT and exactly
\* position_size of assets[0] and nothing else when it is LONG; no SELL is applied
\* to a symbol that is not held, and no other asset is ever held.
C27_StrategyLedger ==
    /\ [](LedgerAgrees)
    /\ [][SellsHeld]_vars

\* A run has bought, sold and is FLAT again with nothing held.
C27_Witness ==
    /\ pc = "loop"
    /\ strategy.position_size > 0
    /\ Len(fills) >= 2
    /\ fills[Len(fills)].action = "SELL"
    /\ fills[Len(fills)].day = day - 1
    /\ ~strategy.is_long
    /\ DOMAIN portfolio.positions = {}

\* C28: day 0 is never traded; after the iteration of each loop day d
\* (1 <= d <= D - 1) portfolio_values and portfolio_returns both have length
\* d + 1; at the end of a run with D >= 1 both have length D; portfolio_values[0]
\* is initial_cash and portfolio_returns[0] is 0.
C28_HistoryLengths ==
    pc # "idle" =>
        /\ \A i \in DOMAIN fills : fills[i].day >= 1
        /\ Len(historical_data) # 1
        /\ pc = "loop" =>
               /\ day >= 1
               /\ day > 1 => day - 1 <= days - 1
               /\ Len(portfolio_values) = (day - 1) + 1
               /\ Len(portfolio_returns) = (day - 1) + 1
        /\ (LoopOver /\ days >= 1) =>
               /\ Len(portfolio_values) = days
               /\ Len(portfolio_returns) = days
        /\ portfolio_values[1] = initial_cash
        /\ portfolio_returns[1] = Zero

\* A run of the largest day count is over.
C28_Witness ==
    /\ LoopOver
    /\ days = MaxDays
    /\ Len(portfolio_values) = MaxDays
    /\ fills # <<>>

\* C29: two runs with a fresh strategy that differ only in the bars of the assets
\* other than assets[0] end with the same fills, portfolio_values,
\* portfolio_returns, VaR records, final portfolio and outcome.
C29_ValuationOnly ==
    (run = 2 /\ LoopOver /\ first_report # NoReport) =>
        /\ fills = first_report.fills
        /\ portfolio_values = first_report.portfolio_values
        /\ portfolio_returns = first_report.portfolio_returns
        /\ var_reports = first_report.var_reports
        /\ portfolio = first_report.portfolio
        /\ report = first_report.report

\* The second run of a pair is over: it traded, holds a position, computed VaR
\* records, and the second asset's closes fell where they rose in the first run.
C29_Witness ==
    /\ run = 2
    /\ LoopOver
    /\ first_report # NoReport
    /\ days = MaxDays
    /\ fills # <<>>
    /\ DOMAIN portfolio.positions # {}
    /\ var_reports # <<>>
    /\ asset_data[Assets[2]][days].close < StartClose * Unit

\* C30: on a day on which generate_signals returns no signal the portfolio's cash,
\* positions and average_costs after the day are those before it; on a day with a
\* signal only the signal's symbol changes; valuing the portfolio, computing the
\* VaR records and building the report leave the portfolio as it is.
C30_PortfolioFrame ==
    [][/\ (pc = "loop" /\ day' = day + 1 /\ signals' = <<>>) =>
              /\ portfolio'.cash = portfolio.cash
              /\ portfolio'.positions = portfolio.positions
              /\ portfolio'.average_costs = portfolio.average_costs
              /\ fills' = fills
       /\ (pc = "loop" /\ day' = day + 1 /\ signals' # <<>>) =>
              \A s \in Symbols \ {signals'[i][2] : i \in DOMAIN signals'} :
                  /\ s \in DOMAIN portfolio'.positions <=> s \in DOMAIN portfolio.positions
                  /\ s \in DOMAIN portfolio.positions =>
                         /\ portfolio'.positions[s] = portfolio.positions[s]
                         /\ portfolio'.average_costs[s] = portfolio.average_costs[s]
       /\ (pc = "loop" /\ pc' # "loop") => portfolio' = portfolio]_vars

\* A day without a signal has passed while a position was held: the position was
\* valued at another close than the day before and a VaR record was computed.
C30_Witness ==
    /\ pc = "loop"
    /\ day >= 3
    /\ signals = <<>>
    /\ DOMAIN portfolio.positions # {}
    /\ (fills # <<>> /\ fills[Len(fills)].day < day - 1)
    /\ portfolio_values[day] # portfolio_values[day - 1]
    /\ var_reports # <<>>
    /\ var_reports[Len(var_reports)].date = day - 1

====
